---- MODULE Spec2Model ----
(***************************************************************************)
(* Big Drip Kicks: the sale transaction engine.                            *)
(*                                                                         *)
(* The store is a PostgreSQL database whose behaviour on insert/update is  *)
(* given by the triggers of supabase/migrations; the clients are the POS   *)
(* screen (Sales.tsx, processSale) and the inventory screen's quick sale   *)
(* (processQuickSale).  Every supabase request is one database             *)
(* transaction; a client's commit is a sequence of such requests.          *)
(*                                                                         *)
(* Amounts are integers in cents.  discountValue is what the cashier types *)
(* (currency units for a flat discount, percent for a percentage one).     *)
(***************************************************************************)
EXTENDS Integers, Sequences, FiniteSets, TLC

(* ------------------------------ bounds -------------------------------- *)

\* largest id the database hands out to a row
MaxId == 12
\* latest time on the clock of a client that acknowledges an alert
MaxTime == 2
\* largest stock quantity a product starts with or is edited to
MaxStock == 3
\* number of processSale / processQuickSale invocations explored
MaxAttempts == 2
\* number of catalog edits (handleUpdateProduct) explored
MaxEdits == 1
\* number of sales rung up in the one-till-at-a-time specification
TillSales == 1

Products == {"p1", "p2"}
\* c1 is a POS screen (Sales.tsx), c2 an inventory screen (quick sale)
Clients == {"c1", "c2"}
Screen(c) == IF c = "c1" THEN "sales" ELSE "inventory"

NULL == "null"

(* ------------------------- program constants -------------------------- *)

\* taxRate = 0.075 as the fraction TaxRateNum / TaxRateDen
TaxRateNum == 75
TaxRateDen == 1000
\* width of the zero-padded counter in 'BD-' || LPAD(n::text, 6, '0')
SaleNumberWidth == 6
\* cents per currency unit, numeric(10,2)
Cents == 100
\* CREATE SEQUENCE sale_number_seq START 1
SeqStart == 1

\* values of sale_number_seq before a sale: a new database, and databases
\* about to hand out a number of six and of seven digits
CounterValues == {SeqStart - 1, 99999, 999999}

\* a price typed into the edit form, in cents
EditedPrices == {5000}

\* catalog prices, in cents
SellingPrice(p) == IF p = "p1" THEN 10000 ELSE 4000
\* low_stock_threshold of the catalog's products
Thresholds == {0}
\* the stock the catalog starts with: p1 at its last unit or fully stocked,
\* p2 at its last unit
InitialStocks ==
  { f \in [ Products -> 1..MaxStock ] :
      f["p1"] \in {1, MaxStock} /\ f["p2"] = 1 }
\* what a cashier types into the discount box
DiscountValues == {0, 10, 200}
DiscountTypes == {"flat", "percentage"}
PaymentMethods == {"cash", "card"}
\* what a cashier types into the amount-paid box, in cents
AmountsPaid == {0, 4000, 20000}

(* ----------------------------- migrations ----------------------------- *)

\* the migrations that create the triggers of the sale engine, in the
\* order of their file names
MigrationOrder ==
  << "graceful_disk", "smooth_term", "complete_setup", "quick_sale_triggers" >>

\* the databases the repository's instructions produce: the original
\* schema with its audit migration, the complete setup alone, and every
\* migration run in order
Deployments ==
  { {"graceful_disk", "smooth_term"},
    {"complete_setup"},
    {"graceful_disk", "smooth_term", "complete_setup", "quick_sale_triggers"} }

\* CREATE TRIGGER statements of each migration (on products, sales, sale_items)
TriggersOf(m) ==
  CASE m = "graceful_disk" ->
         {"trigger_set_sale_number", "trigger_check_low_stock",
          "trigger_update_product_stock"}
    [] m = "smooth_term" ->
         {"products_audit_trigger", "sales_audit_trigger"}
    [] m = "complete_setup" ->
         {"trigger_set_sale_number", "trigger_update_product_stock",
          "trigger_check_low_stock", "products_audit_trigger",
          "sales_audit_trigger"}
    [] m = "quick_sale_triggers" ->
         {"set_sale_number_trigger", "update_product_stock_trigger",
          "check_low_stock_trigger", "audit_products_trigger",
          "audit_sales_trigger", "audit_sale_items_trigger",
          "validate_stock_before_sale_trigger",
          "calculate_sale_totals_trigger"}

\* CREATE OR REPLACE FUNCTION statements of each migration
FunctionsOf(m) ==
  CASE m = "graceful_disk" ->
         {"set_sale_number", "check_low_stock", "update_product_stock"}
    [] m = "smooth_term" -> {"audit_trigger_function"}
    [] m = "complete_setup" ->
         {"set_sale_number", "check_low_stock", "update_product_stock",
          "audit_trigger_function"}
    [] m = "quick_sale_triggers" ->
         {"set_sale_number", "check_low_stock", "update_product_stock",
          "create_audit_log", "validate_stock_before_sale",
          "calculate_sale_totals"}

(* ------------------------------- state -------------------------------- *)

VARIABLES
  installed,      \* the migrations that were run on this database
  db,             \* the committed contents of the database
  products,       \* per client: the product list state (fetchProducts)
  cart,           \* per client: cart / quickSaleCart
  discountType,   \* per client
  discountValue,  \* per client
  paymentMethod,  \* per client
  amountPaid,     \* per client
  lastSale,       \* per client: the sale handed to the receipt modal
  pc,             \* per client: where its processSale invocation stands
  req,            \* per client: the locals of the invocation in flight
  attempts,       \* every invocation that passed validation, in order
  edits,          \* number of catalog edits made so far
  alerts,         \* per client: the alerts state of useLowStockAlerts
  editingProduct  \* per client: the edit form, {} while it is closed (null)

vars ==
  << installed, db, products, cart, discountType, discountValue,
     paymentMethod, amountPaid, lastSale, pc, req, attempts, edits, alerts,
                  editingProduct >>

ui == << products, cart, discountType, discountValue, paymentMethod,
         amountPaid, lastSale >>

(* ------------------------------ helpers ------------------------------- *)

Range(s) == { s[i] : i \in 1..Len(s) }

RECURSIVE SumSeq(_)
SumSeq(s) == IF s = << >> THEN 0 ELSE Head(s) + SumSeq(Tail(s))

Max(S) == CHOOSE x \in S : \A y \in S : y <= x

(* ------------------------- installed triggers ------------------------- *)

Triggers == UNION { TriggersOf(m) : m \in installed }

\* the body a function has after the installed migrations ran in order:
\* the last CREATE OR REPLACE wins
FunctionVersion(f) ==
  LET idx == { i \in 1..Len(MigrationOrder) :
                 /\ MigrationOrder[i] \in installed
                 /\ f \in FunctionsOf(MigrationOrder[i]) }
  IN  MigrationOrder[Max(idx)]

SaleNumberTriggers ==
  Triggers \cap {"trigger_set_sale_number", "set_sale_number_trigger"}
StockTriggers ==
  Triggers \cap {"trigger_update_product_stock", "update_product_stock_trigger"}
LowStockTriggers ==
  Triggers \cap {"trigger_check_low_stock", "check_low_stock_trigger"}
ValidateTriggers == Triggers \cap {"validate_stock_before_sale_trigger"}
TotalsTriggers == Triggers \cap {"calculate_sale_totals_trigger"}
AuditTriggers(table) ==
  CASE table = "products" ->
         Triggers \cap {"products_audit_trigger", "audit_products_trigger"}
    [] table = "sales" ->
         Triggers \cap {"sales_audit_trigger", "audit_sales_trigger"}
    [] table = "sale_items" ->
         Triggers \cap {"audit_sale_items_trigger"}

(* --------------------------- sale numbers ----------------------------- *)

\* n::text as its decimal digits
RECURSIVE Digits(_)
Digits(n) == IF n < 10 THEN << n >> ELSE Digits(n \div 10) \o << n % 10 >>

\* LPAD(s, len, fill): pads on the left, and truncates a longer s to len
LPAD(s, len, fill) ==
  IF Len(s) >= len
    THEN SubSeq(s, 1, len)
    ELSE [ i \in 1..(len - Len(s)) |-> fill ] \o s

\* 'BD-' || LPAD(n::text, 6, '0')
FormatSaleNumber(n) ==
  [ prefix |-> "BD-", digits |-> LPAD(Digits(n), SaleNumberWidth, 0) ]

\* CAST(SUBSTRING(sale_number FROM 4) AS integer)
RECURSIVE DigitsValue(_)
DigitsValue(d) ==
  IF d = << >> THEN 0
  ELSE 10 * DigitsValue(SubSeq(d, 1, Len(d) - 1)) + d[Len(d)]

SaleNumberValue(sn) == DigitsValue(sn.digits)

\* generate_sale_number(): MAX over the sales this transaction can see, + 1
generate_sale_number(t) ==
  LET nums == { SaleNumberValue(r.sale_number) :
                  r \in { x \in Range(t.sales) : x.sale_number.prefix = "BD-" } }
  IN  FormatSaleNumber((IF nums = {} THEN 0 ELSE Max(nums)) + 1)

(* -------------------------- audit triggers ---------------------------- *)

\* audit_trigger_function() / create_audit_log(): one audit_logs row
AuditRow(uid, op, table, id, old, new) ==
  [ user_id |-> uid, action |-> op, table_name |-> table, record_id |-> id,
    old_values |-> old, new_values |-> new ]

RECURSIVE AppendTimes(_, _, _)
AppendTimes(s, e, n) == IF n = 0 THEN s ELSE AppendTimes(Append(s, e), e, n - 1)

\* the audit triggers had they kept only the latest entry of a record
audit_trigger_function_latest_only(t, uid, op, table, id, old, new) ==
  [ t EXCEPT !.audit_logs =
      AppendTimes(SelectSeq(@, LAMBDA e : ~(e.table_name = table /\ e.record_id = id)),
                  AuditRow(uid, op, table, id, old, new),
                  Cardinality(AuditTriggers(table))) ]

\* every audit trigger installed on the table appends its row
audit_trigger_function(t, uid, op, table, id, old, new) ==
  [ t EXCEPT !.audit_logs =
      AppendTimes(@, AuditRow(uid, op, table, id, old, new),
                  Cardinality(AuditTriggers(table))) ]

(* ------------------------- products triggers -------------------------- *)

AlertRow(id, p, row) ==
  [ id |-> id, product_id |-> p, current_stock |-> row.stock_quantity,
    threshold |-> row.low_stock_threshold, is_acknowledged |-> FALSE,
    acknowledged_by |-> NULL, acknowledged_at |-> NULL ]

\* check_low_stock() had low_stock_alerts a unique constraint on product_id
\* and every version the DO UPDATE of graceful_disk: the product's alert is
\* reset, is_acknowledged = false, acknowledged_by and acknowledged_at NULL
check_low_stock_upsert(t, p) ==
  LET new == t.products[p]
      low == new.stock_quantity <= new.low_stock_threshold
  IN  IF ~low THEN t
      ELSE IF \E a \in Range(t.low_stock_alerts) : a.product_id = p
        THEN [ t EXCEPT !.low_stock_alerts =
                 [ i \in 1..Len(@) |->
                     IF @[i].product_id = p
                       THEN AlertRow(@[i].id, p, new) ELSE @[i] ] ]
        ELSE [ t EXCEPT !.low_stock_alerts =
                          Append(@, AlertRow(t.next_id, p, new)),
                        !.next_id = @ + 1 ]

\* check_low_stock() as the installed migrations leave it.  low_stock_alerts
\* has no unique constraint on product_id: INSERT ... ON CONFLICT (product_id)
\* raises "no unique or exclusion constraint matching the ON CONFLICT
\* specification", and ON CONFLICT DO NOTHING never finds a conflict.
check_low_stock(t, p) ==
  LET new == t.products[p]
      low == new.stock_quantity <= new.low_stock_threshold
      v   == FunctionVersion("check_low_stock")
  IN  CASE v = "graceful_disk" ->
             IF low THEN [ t EXCEPT !.raised = TRUE ]
             ELSE [ t EXCEPT !.low_stock_alerts =
                      SelectSeq(@, LAMBDA a : a.product_id # p) ]
        [] v = "complete_setup" ->
             IF low
               THEN [ t EXCEPT !.low_stock_alerts =
                                 Append(@, AlertRow(t.next_id, p, new)),
                               !.next_id = @ + 1 ]
               ELSE t
        [] v = "quick_sale_triggers" ->
             IF low THEN [ t EXCEPT !.raised = TRUE ] ELSE t

RECURSIVE RunLowStockTriggers(_, _, _)
RunLowStockTriggers(t, p, n) ==
  IF n = 0 \/ t.raised THEN t
  ELSE RunLowStockTriggers(check_low_stock(t, p), p, n - 1)

\* UPDATE products SET ... WHERE id = p, with its AFTER UPDATE row triggers
UpdateProduct(t, uid, p, new) ==
  LET old == t.products[p]
      t1  == [ t EXCEPT !.products[p] = new ]
      t2  == audit_trigger_function(t1, uid, "UPDATE", "products", p, old, new)
  IN  RunLowStockTriggers(t2, p, Cardinality(LowStockTriggers))

\* update_product_stock(): stock_quantity = stock_quantity - NEW.quantity
update_product_stock(t, uid, item) ==
  UpdateProduct(t, uid, item.product_id,
                [ t.products[item.product_id] EXCEPT
                    !.stock_quantity = @ - item.quantity ])

RECURSIVE RunStockTriggers(_, _, _, _)
RunStockTriggers(t, uid, item, n) ==
  IF n = 0 \/ t.raised THEN t
  ELSE RunStockTriggers(update_product_stock(t, uid, item), uid, item, n - 1)

(* ------------------------- sale_items triggers ------------------------ *)

\* validate_stock_before_sale(): BEFORE INSERT, raises when the stock it
\* reads is below the quantity of the new row
validate_stock_before_sale(t, new) ==
  LET current_stock == t.products[new.product_id].stock_quantity
  IN  IF current_stock < new.quantity THEN [ t EXCEPT !.raised = TRUE ] ELSE t

\* calculate_sale_totals() had it been written against NEW.sale_id: it finds
\* the sale of the new row and rewrites its subtotal and total_amount
calculate_sale_totals_by_sale_id(t, uid, new) ==
  LET mine == SelectSeq(t.sale_items, LAMBDA r : r.sale_id = new.sale_id)
      sale_total == SumSeq([ i \in 1..Len(mine) |-> mine[i].total_price ])
      hit == { i \in 1..Len(t.sales) : t.sales[i].id = new.sale_id }
  IN  IF hit = {} THEN t
      ELSE LET i   == CHOOSE j \in hit : TRUE
               old == t.sales[i]
               upd == [ old EXCEPT !.subtotal = sale_total,
                                   !.total_amount = sale_total - old.discount_amount ]
           IN  audit_trigger_function([ t EXCEPT !.sales[i] = upd ],
                                      uid, "UPDATE", "sales", old.id, old, upd)

\* calculate_sale_totals(): AFTER INSERT on sale_items.  NEW is the
\* sale_items row, and the function selects and updates WHERE ... = NEW.id
calculate_sale_totals(t, uid, new) ==
  LET mine == SelectSeq(t.sale_items, LAMBDA r : r.sale_id = new.id)
      sale_total == SumSeq([ i \in 1..Len(mine) |-> mine[i].total_price ])
      hit == { i \in 1..Len(t.sales) : t.sales[i].id = new.id }
  IN  IF hit = {} THEN t
      ELSE LET i   == CHOOSE j \in hit : TRUE
               old == t.sales[i]
               upd == [ old EXCEPT !.subtotal = sale_total,
                                   !.total_amount = sale_total - old.discount_amount ]
           IN  audit_trigger_function([ t EXCEPT !.sales[i] = upd ],
                                      uid, "UPDATE", "sales", old.id, old, upd)

\* the BEFORE INSERT row triggers of sale_items, for the rows of one INSERT
RECURSIVE BeforeInsertSaleItems(_, _)
BeforeInsertSaleItems(t, rows) ==
  IF rows = << >> \/ t.raised THEN t
  ELSE BeforeInsertSaleItems(
         IF ValidateTriggers # {} THEN validate_stock_before_sale(t, Head(rows))
         ELSE t,
         Tail(rows))

\* the AFTER INSERT row triggers of sale_items for one row
AfterInsertSaleItem(t, uid, new) ==
  LET t1 == audit_trigger_function(t, uid, "INSERT", "sale_items", new.id, NULL, new)
      t2 == IF TotalsTriggers # {} THEN calculate_sale_totals(t1, uid, new) ELSE t1
  IN  RunStockTriggers(t2, uid, new, Cardinality(StockTriggers))

RECURSIVE AfterInsertSaleItems(_, _, _)
AfterInsertSaleItems(t, uid, rows) ==
  IF rows = << >> \/ t.raised THEN t
  ELSE AfterInsertSaleItems(AfterInsertSaleItem(t, uid, Head(rows)), uid, Tail(rows))

\* the rows of supabase.from('sale_items').insert(saleItems), with the ids
\* the database gives them
SaleItemRows(t, saleItems) ==
  [ i \in 1..Len(saleItems) |->
      [ id |-> t.next_id + i - 1, sale_id |-> saleItems[i].sale_id,
        product_id |-> saleItems[i].product_id,
        quantity |-> saleItems[i].quantity,
        unit_price |-> saleItems[i].unit_price,
        total_price |-> saleItems[i].total_price ] ]

\* INSERT INTO sale_items, after its BEFORE triggers passed: the rows go in,
\* then the AFTER row triggers run, all in one statement
InsertSaleItems(t, uid, saleItems) ==
  LET rows == SaleItemRows(t, saleItems)
      t1   == [ t EXCEPT !.sale_items = @ \o rows, !.next_id = @ + Len(rows) ]
  IN  AfterInsertSaleItems(t1, uid, rows)

(* --------------------------- sales triggers --------------------------- *)

\* the sales row of one insert, numbered by set_sale_number()
SaleRow(id, number, uid, r) ==
  [ id |-> id, sale_number |-> number, cashier_id |-> uid,
    subtotal |-> r.subtotal,
    discount_type |-> r.discount_type, discount_value |-> r.discount_value,
    discount_amount |-> r.discountAmount, total_amount |-> r.total,
    payment_method |-> r.paymentMethod ]

\* sale_number text UNIQUE NOT NULL
SaleNumberTaken(t, number) == \E r \in Range(t.sales) : r.sale_number = number

\* the sales insert had sale_number no UNIQUE constraint
InsertSaleWithoutUnique(t, uid, row) ==
  audit_trigger_function(
    [ t EXCEPT !.sales = Append(@, row), !.next_id = @ + 1 ],
    uid, "INSERT", "sales", row.id, NULL, row)

\* INSERT INTO sales of a numbered row, with its AFTER INSERT row triggers
InsertSale(t, uid, row) ==
  IF SaleNumberTaken(t, row.sale_number) THEN [ t EXCEPT !.raised = TRUE ]
  ELSE audit_trigger_function(
         [ t EXCEPT !.sales = Append(@, row), !.next_id = @ + 1 ],
         uid, "INSERT", "sales", row.id, NULL, row)

(* --------------------------- cart calculator -------------------------- *)

calculateSubtotal(ct) == SumSeq([ i \in 1..Len(ct) |-> ct[i].total_price ])

calculateDiscountAmount(ct, dtype, dvalue) ==
  IF dtype = "percentage"
    THEN (calculateSubtotal(ct) * dvalue) \div 100
    ELSE dvalue * Cents

\* calculateTaxAmount had it taxed the subtotal before the discount
calculateTaxAmountBeforeDiscount(ct, dtype, dvalue) ==
  (calculateSubtotal(ct) * TaxRateNum) \div TaxRateDen

calculateTaxAmount(ct, dtype, dvalue) ==
  LET subtotalAfterDiscount ==
        calculateSubtotal(ct) - calculateDiscountAmount(ct, dtype, dvalue)
  IN  (subtotalAfterDiscount * TaxRateNum) \div TaxRateDen

calculateTotal(ct, dtype, dvalue) ==
  calculateSubtotal(ct) - calculateDiscountAmount(ct, dtype, dvalue)
    + calculateTaxAmount(ct, dtype, dvalue)

calculateChangeDue(paid, ct, dtype, dvalue) ==
  LET total == calculateTotal(ct, dtype, dvalue)
  IN  IF paid > total THEN paid - total ELSE 0

(* ------------------------------ the client ---------------------------- *)

\* fetchProducts(): the active products.  The POS screen selects the price
\* and the stock of those in stock (.gt('stock_quantity', 0)), the inventory
\* screen selects every column
fetchProducts(c, d) ==
  IF Screen(c) = "sales"
    THEN { [ id |-> p,
             selling_price |-> d.products[p].selling_price,
             stock_quantity |-> d.products[p].stock_quantity ] :
             p \in { q \in Products : d.products[q].stock_quantity > 0 } }
    ELSE { [ id |-> p,
             selling_price |-> d.products[p].selling_price,
             stock_quantity |-> d.products[p].stock_quantity,
             low_stock_threshold |-> d.products[p].low_stock_threshold ] :
             p \in Products }

\* products.find(p => p.id === productId)
Listed(c, p) == \E product \in products[c] : product.id = p
Find(c, p) == CHOOSE product \in products[c] : product.id = p

InCart(ct, p) == \E i \in 1..Len(ct) : ct[i].product.id = p

CartLine(ct, p) == ct[CHOOSE i \in 1..Len(ct) : ct[i].product.id = p]

Idle(c) == pc[c] = "idle" /\ Len(attempts) < MaxAttempts

\* addToCart had it raised the quantity of a line and left its total_price
addToCartStaleTotal(c, p) ==
  /\ Idle(c)
  /\ Listed(c, p)
  /\ LET product == Find(c, p) IN
     IF InCart(cart[c], p)
       THEN IF CartLine(cart[c], p).quantity < product.stock_quantity
              THEN cart' = [ cart EXCEPT ![c] =
                        [ i \in 1..Len(@) |->
                            IF @[i].product.id = p
                              THEN [ @[i] EXCEPT !.quantity = @ + 1 ]
                              ELSE @[i] ] ]
              ELSE UNCHANGED cart
       ELSE cart' = [ cart EXCEPT ![c] =
                 Append(@, [ product |-> product, quantity |-> 1,
                             unit_price |-> product.selling_price,
                             total_price |-> product.selling_price ]) ]
  /\ UNCHANGED << installed, db, products, discountType, discountValue,
                  paymentMethod, amountPaid, lastSale, pc, req, attempts, edits, alerts,
                  editingProduct >>

\* addToCart had it taken the line's unit_price from the product list again
\* when it raises the quantity
addToCartRepriced(c, p) ==
  /\ Idle(c)
  /\ Listed(c, p)
  /\ LET product == Find(c, p) IN
     IF InCart(cart[c], p)
       THEN IF CartLine(cart[c], p).quantity < product.stock_quantity
              THEN cart' = [ cart EXCEPT ![c] =
                        [ i \in 1..Len(@) |->
                            IF @[i].product.id = p
                              THEN [ @[i] EXCEPT
                                       !.quantity = @ + 1,
                                       !.unit_price = product.selling_price,
                                       !.total_price =
                                         (cart[c][i].quantity + 1) * product.selling_price ]
                              ELSE @[i] ] ]
              ELSE UNCHANGED cart
       ELSE cart' = [ cart EXCEPT ![c] =
                 Append(@, [ product |-> product, quantity |-> 1,
                             unit_price |-> product.selling_price,
                             total_price |-> product.selling_price ]) ]
  /\ UNCHANGED << installed, db, products, discountType, discountValue,
                  paymentMethod, amountPaid, lastSale, pc, req, attempts, edits,
                  alerts, editingProduct >>

\* addToCart(product) / addToQuickSaleCart(product)
addToCart(c, p) ==
  /\ Idle(c)
  /\ Listed(c, p)
  /\ LET product == Find(c, p) IN
     IF InCart(cart[c], p)
       THEN IF CartLine(cart[c], p).quantity < product.stock_quantity
              THEN cart' = [ cart EXCEPT ![c] =
                        [ i \in 1..Len(@) |->
                            IF @[i].product.id = p
                              THEN [ @[i] EXCEPT
                                       !.quantity = @ + 1,
                                       !.total_price =
                                         (cart[c][i].quantity + 1) * cart[c][i].unit_price ]
                              ELSE @[i] ] ]
              ELSE \* alert('Not enough stock available')
                   UNCHANGED cart
       ELSE cart' = [ cart EXCEPT ![c] =
                 Append(@, [ product |-> product, quantity |-> 1,
                             unit_price |-> product.selling_price,
                             total_price |-> product.selling_price ]) ]
  /\ UNCHANGED << installed, db, products, discountType, discountValue,
                  paymentMethod, amountPaid, lastSale, pc, req, attempts, edits, alerts,
                  editingProduct >>

\* removeFromCart(productId)
removeFromCart(ct, p) == SelectSeq(ct, LAMBDA item : item.product.id # p)

\* updateCartItemQuantity(productId, quantity), from a cart line's buttons
updateCartItemQuantity(c, p, quantity) ==
  /\ Idle(c)
  /\ InCart(cart[c], p)
  /\ IF quantity <= 0
       THEN cart' = [ cart EXCEPT ![c] = removeFromCart(@, p) ]
       ELSE IF Listed(c, p) /\ quantity > Find(c, p).stock_quantity
         THEN \* alert('Not enough stock available')
              UNCHANGED cart
         ELSE cart' = [ cart EXCEPT ![c] =
                   [ i \in 1..Len(@) |->
                       IF @[i].product.id = p
                         THEN [ @[i] EXCEPT
                                  !.quantity = quantity,
                                  !.total_price = quantity * cart[c][i].unit_price ]
                         ELSE @[i] ] ]
  /\ UNCHANGED << installed, db, products, discountType, discountValue,
                  paymentMethod, amountPaid, lastSale, pc, req, attempts, edits, alerts,
                  editingProduct >>

\* clearCart() / clearQuickSaleCart(), from the Clear Cart button
clearCart(c) ==
  /\ Idle(c)
  /\ cart' = [ cart EXCEPT ![c] = << >> ]
  /\ discountValue' = [ discountValue EXCEPT ![c] = 0 ]
  /\ amountPaid' = [ amountPaid EXCEPT ![c] = 0 ]
  /\ UNCHANGED << installed, db, products, discountType, paymentMethod,
                  lastSale, pc, req, attempts, edits, alerts, editingProduct >>

\* the discount, payment method and amount-paid inputs
setDiscount(c, dtype, dvalue) ==
  /\ Idle(c)
  /\ discountType' = [ discountType EXCEPT ![c] = dtype ]
  /\ discountValue' = [ discountValue EXCEPT ![c] = dvalue ]
  /\ UNCHANGED << installed, db, products, cart, paymentMethod, amountPaid,
                  lastSale, pc, req, attempts, edits, alerts,
                  editingProduct >>

setPayment(c, method, paid) ==
  /\ Idle(c)
  /\ paymentMethod' = [ paymentMethod EXCEPT ![c] = method ]
  /\ amountPaid' = [ amountPaid EXCEPT ![c] = paid ]
  /\ UNCHANGED << installed, db, products, cart, discountType, discountValue,
                  lastSale, pc, req, attempts, edits, alerts,
                  editingProduct >>

\* processSale's checks had the comparison of amountPaid with the total
\* been left out
RejectionWithoutPaymentCheck(c) ==
  LET total == calculateTotal(cart[c], discountType[c], discountValue[c])
  IN  IF Len(cart[c]) = 0 THEN "Cart is empty"
      ELSE IF total < 0 THEN "Total cannot be negative"
      ELSE NULL

\* why processSale returns before any request, NULL if it goes on
Rejection(c) ==
  LET total == calculateTotal(cart[c], discountType[c], discountValue[c])
  IN  IF Len(cart[c]) = 0 THEN "Cart is empty"
      ELSE IF total < 0 THEN "Total cannot be negative"
      ELSE IF paymentMethod[c] = "cash" /\ amountPaid[c] = 0 THEN NULL
      ELSE IF paymentMethod[c] = "cash" /\ amountPaid[c] < total
        THEN "Insufficient payment amount"
      ELSE NULL

\* processSale / processQuickSale up to the sales insert it awaits
processSale(c) ==
  /\ Idle(c)
  /\ LET ct    == cart[c]
         total == calculateTotal(ct, discountType[c], discountValue[c])
     IN
     IF Rejection(c) # NULL
       THEN \* alert(Rejection(c)); return
            UNCHANGED << amountPaid, pc, req, attempts >>
       ELSE /\ amountPaid' = [ amountPaid EXCEPT ![c] =
                 IF paymentMethod[c] = "cash" /\ @ = 0 THEN total ELSE @ ]
            /\ attempts' = Append(attempts,
                 [ client |-> c, status |-> "pending", why |-> NULL,
                   overlaps |-> { a \in 1..Len(attempts) :
                                    attempts[a].status = "pending" },
                   numbered |-> 0, sale_id |-> 0, cart |-> ct,
                   paymentMethod |-> paymentMethod[c],
                   amountPaid |-> amountPaid[c],
                   taxAmount |->
                     calculateTaxAmount(ct, discountType[c], discountValue[c]) ])
            /\ req' = [ req EXCEPT ![c] =
                 [ attempt |-> Len(attempts) + 1,
                   cart |-> ct,
                   amountPaid |-> amountPaid[c],
                   paymentMethod |-> paymentMethod[c],
                   discountType |-> discountType[c],
                   discountValue |-> discountValue[c],
                   subtotal |-> calculateSubtotal(ct),
                   discountAmount |->
                     calculateDiscountAmount(ct, discountType[c], discountValue[c]),
                   taxAmount |->
                     calculateTaxAmount(ct, discountType[c], discountValue[c]),
                   total |-> total,
                   discount_type |->
                     IF discountValue[c] > 0 THEN discountType[c] ELSE NULL,
                   discount_value |->
                     IF discountValue[c] > 0 THEN discountValue[c] ELSE NULL,
                   sale_number |-> NULL,
                   saleData |-> NULL ] ]
            /\ pc' = [ pc EXCEPT ![c] = "insertSale" ]
  /\ UNCHANGED << installed, db, products, cart, discountType, discountValue,
                  paymentMethod, lastSale, edits, alerts,
                  editingProduct >>

\* the catch block of processSale: the invocation ends with
\* alert('Error processing sale. Please try again.')
Catch(c, why) ==
  /\ attempts' = [ attempts EXCEPT ![req[c].attempt].status = "failed",
                                   ![req[c].attempt].why = why ]
  /\ req' = [ req EXCEPT ![c] = NULL ]
  /\ pc' = [ pc EXCEPT ![c] = "idle" ]
  /\ UNCHANGED << products, cart, discountType, discountValue, paymentMethod,
                  amountPaid, lastSale >>

\* a request that the store does not serve: supabase returns an error
StoreError(c) ==
  /\ pc[c] \in {"insertSale", "insertItems", "readBack"}
  /\ Catch(c, "store error")
  /\ UNCHANGED << installed, db, edits, alerts,
                  editingProduct >>

(* ------------------------ the requests of a commit -------------------- *)

\* set_sale_number() had the sequence been created counting down
NumberSaleCountingDown(c) ==
  /\ pc[c] = "insertSale"
  /\ IF FunctionVersion("set_sale_number") = "graceful_disk"
       THEN /\ req' = [ req EXCEPT ![c].sale_number = generate_sale_number(db) ]
            /\ UNCHANGED db
       ELSE /\ req' = [ req EXCEPT ![c].sale_number =
                                     FormatSaleNumber(MaxAttempts - db.sale_number_seq) ]
            /\ db' = [ db EXCEPT !.sale_number_seq = @ + 1 ]
  /\ attempts' = [ attempts EXCEPT ![req[c].attempt].numbered =
       1 + Cardinality({ a \in 1..Len(attempts) : attempts[a].numbered > 0 }) ]
  /\ pc' = [ pc EXCEPT ![c] = "saleNumbered" ]
  /\ UNCHANGED << installed, ui, edits, alerts,
                  editingProduct >>

\* set_sale_number(), BEFORE INSERT on sales: the number is taken from what
\* is committed when the trigger runs (generate_sale_number), or from
\* nextval('sale_number_seq'), which no rollback undoes
NumberSale(c) ==
  /\ pc[c] = "insertSale"
  /\ IF FunctionVersion("set_sale_number") = "graceful_disk"
       THEN /\ req' = [ req EXCEPT ![c].sale_number = generate_sale_number(db) ]
            /\ UNCHANGED db
       ELSE /\ req' = [ req EXCEPT ![c].sale_number =
                                     FormatSaleNumber(db.sale_number_seq + 1) ]
            /\ db' = [ db EXCEPT !.sale_number_seq = @ + 1 ]
  /\ attempts' = [ attempts EXCEPT ![req[c].attempt].numbered =
       1 + Cardinality({ a \in 1..Len(attempts) : attempts[a].numbered > 0 }) ]
  /\ pc' = [ pc EXCEPT ![c] = "saleNumbered" ]
  /\ UNCHANGED << installed, ui, edits, alerts,
                  editingProduct >>

\* the sales insert commits, or fails on the UNIQUE sale_number
CommitSale(c) ==
  /\ pc[c] = "saleNumbered"
  /\ LET row == SaleRow(db.next_id, req[c].sale_number, c, req[c])
         t   == InsertSale(db, c, row)
     IN  IF t.raised
           THEN Catch(c, "duplicate sale_number") /\ UNCHANGED db
           ELSE /\ db' = t
                /\ req' = [ req EXCEPT ![c].saleData = row ]
                /\ attempts' = [ attempts EXCEPT ![req[c].attempt].sale_id = row.id ]
                /\ pc' = [ pc EXCEPT ![c] = "insertItems" ]
                /\ UNCHANGED ui
  /\ UNCHANGED << installed, edits, alerts,
                  editingProduct >>

\* const saleItems = cart.map(...)
saleItems(c) ==
  [ i \in 1..Len(req[c].cart) |->
      [ sale_id |-> req[c].saleData.id,
        product_id |-> req[c].cart[i].product.id,
        quantity |-> req[c].cart[i].quantity,
        unit_price |-> req[c].cart[i].unit_price,
        total_price |-> req[c].cart[i].total_price ] ]

\* the BEFORE INSERT triggers of the sale_items insert read the stock
ValidateItems(c) ==
  /\ pc[c] = "insertItems"
  /\ ValidateTriggers # {}
  /\ IF BeforeInsertSaleItems(db, SaleItemRows(db, saleItems(c))).raised
       THEN Catch(c, "insufficient stock")
       ELSE /\ pc' = [ pc EXCEPT ![c] = "itemsValidated" ]
            /\ UNCHANGED << ui, req, attempts >>
  /\ UNCHANGED << installed, db, edits, alerts,
                  editingProduct >>

\* the sale_items insert had its rows and trigger effects been kept up to
\* the trigger that raises
ApplyItemsWithoutRollback(c) ==
  /\ \/ pc[c] = "itemsValidated"
     \/ pc[c] = "insertItems" /\ ValidateTriggers = {}
  /\ LET t == InsertSaleItems(db, c, saleItems(c))
     IN  IF t.raised
           THEN Catch(c, "trigger raised") /\ db' = [ t EXCEPT !.raised = FALSE ]
           ELSE /\ db' = t
                /\ pc' = [ pc EXCEPT ![c] = "readBack" ]
                /\ UNCHANGED << ui, req, attempts >>
  /\ UNCHANGED << installed, edits, alerts,
                  editingProduct >>

\* the rows and the effects of their AFTER INSERT triggers commit together,
\* or a trigger raises and none of them does
ApplyItems(c) ==
  /\ \/ pc[c] = "itemsValidated"
     \/ pc[c] = "insertItems" /\ ValidateTriggers = {}
  /\ LET t == InsertSaleItems(db, c, saleItems(c))
     IN  IF t.raised
           THEN Catch(c, "trigger raised") /\ UNCHANGED db
           ELSE /\ db' = t
                /\ pc' = [ pc EXCEPT ![c] = "readBack" ]
                /\ UNCHANGED << ui, req, attempts >>
  /\ UNCHANGED << installed, edits, alerts,
                  editingProduct >>

\* the read-back of the sale, then the receipt, clearCart and fetchProducts
ReadBack(c) ==
  /\ pc[c] = "readBack"
  /\ LET r == req[c]
         completeSale ==
           [ sale |-> CHOOSE x \in Range(db.sales) : x.id = r.saleData.id,
             sale_items |-> SelectSeq(db.sale_items,
                                      LAMBDA x : x.sale_id = r.saleData.id),
             tax_amount |-> r.taxAmount,
             change_due |-> calculateChangeDue(r.amountPaid, r.cart,
                                               r.discountType, r.discountValue),
             amount_paid |-> r.amountPaid ]
     IN  /\ lastSale' = [ lastSale EXCEPT ![c] = completeSale ]
         /\ attempts' = [ attempts EXCEPT ![r.attempt].status = "committed" ]
  /\ cart' = [ cart EXCEPT ![c] = << >> ]
  /\ discountValue' = [ discountValue EXCEPT ![c] = 0 ]
  /\ amountPaid' = [ amountPaid EXCEPT ![c] = 0 ]
  /\ products' = [ products EXCEPT ![c] = fetchProducts(c, db) ]
  /\ req' = [ req EXCEPT ![c] = NULL ]
  /\ pc' = [ pc EXCEPT ![c] = "idle" ]
  /\ UNCHANGED << installed, db, discountType, paymentMethod, edits, alerts,
                  editingProduct >>

(* ------------------------- a second invocation ------------------------ *)

\* the locals of an invocation of processSale by client c
Locals(c, attempt) ==
  LET ct == cart[c] IN
  [ attempt |-> attempt,
    cart |-> ct,
    amountPaid |-> amountPaid[c],
    paymentMethod |-> paymentMethod[c],
    discountType |-> discountType[c],
    discountValue |-> discountValue[c],
    subtotal |-> calculateSubtotal(ct),
    discountAmount |->
      calculateDiscountAmount(ct, discountType[c], discountValue[c]),
    taxAmount |-> calculateTaxAmount(ct, discountType[c], discountValue[c]),
    total |-> calculateTotal(ct, discountType[c], discountValue[c]),
    discount_type |-> IF discountValue[c] > 0 THEN discountType[c] ELSE NULL,
    discount_value |-> IF discountValue[c] > 0 THEN discountValue[c] ELSE NULL ]

\* Process Sale clicked again while the invocation in flight awaits the
\* store: the button is disabled only while the cart is empty, and
\* processSale keeps no flag of an invocation in flight.  The requests of
\* this second invocation are served one after the other before the next
\* request of the first one.
processSaleAgain(c) ==
  /\ pc[c] # "idle"
  /\ Len(attempts) < MaxAttempts
  /\ Rejection(c) = NULL
  /\ LET r      == Locals(c, Len(attempts) + 1)
         seq    == FunctionVersion("set_sale_number") # "graceful_disk"
         number == IF seq THEN FormatSaleNumber(db.sale_number_seq + 1)
                   ELSE generate_sale_number(db)
         t0     == IF seq THEN [ db EXCEPT !.sale_number_seq = @ + 1 ] ELSE db
         row    == SaleRow(t0.next_id, number, c, r)
         t1     == InsertSale(t0, c, row)
         items  == [ i \in 1..Len(r.cart) |->
                       [ sale_id |-> row.id,
                         product_id |-> r.cart[i].product.id,
                         quantity |-> r.cart[i].quantity,
                         unit_price |-> r.cart[i].unit_price,
                         total_price |-> r.cart[i].total_price ] ]
         t2     == IF BeforeInsertSaleItems(t1, SaleItemRows(t1, items)).raised
                     THEN [ t1 EXCEPT !.raised = TRUE ]
                     ELSE InsertSaleItems(t1, c, items)
         done   == ~t1.raised /\ ~t2.raised
         record == [ client |-> c,
                     status |-> IF done THEN "committed" ELSE "failed",
                     why |-> IF done THEN NULL
                             ELSE IF t1.raised THEN "duplicate sale_number"
                             ELSE "trigger raised",
                     overlaps |-> { a \in 1..Len(attempts) :
                                      attempts[a].status = "pending" },
                     numbered |->
                       1 + Cardinality({ a \in 1..Len(attempts) :
                                           attempts[a].numbered > 0 }),
                     sale_id |-> IF t1.raised THEN 0 ELSE row.id,
                     cart |-> r.cart,
                     paymentMethod |-> r.paymentMethod,
                     amountPaid |-> r.amountPaid,
                     taxAmount |-> r.taxAmount ]
     IN  /\ attempts' = Append(attempts, record)
         /\ db' = IF t1.raised THEN t0 ELSE IF t2.raised THEN t1 ELSE t2
         /\ IF done
              THEN /\ lastSale' = [ lastSale EXCEPT ![c] =
                        [ sale |-> CHOOSE x \in Range(t2.sales) : x.id = row.id,
                          sale_items |-> SelectSeq(t2.sale_items,
                                                   LAMBDA x : x.sale_id = row.id),
                          tax_amount |-> r.taxAmount,
                          change_due |-> calculateChangeDue(r.amountPaid, r.cart,
                                           r.discountType, r.discountValue),
                          amount_paid |-> r.amountPaid ] ]
                   /\ cart' = [ cart EXCEPT ![c] = << >> ]
                   /\ discountValue' = [ discountValue EXCEPT ![c] = 0 ]
                   /\ amountPaid' = [ amountPaid EXCEPT ![c] = 0 ]
                   /\ products' = [ products EXCEPT ![c] = fetchProducts(c, t2) ]
              ELSE UNCHANGED << lastSale, cart, discountValue, amountPaid,
                                products >>
  /\ UNCHANGED << installed, discountType, paymentMethod, pc, req, edits,
                  alerts, editingProduct >>

(* ------------------------------ the catalog --------------------------- *)

\* the Edit button of a product row: setEditingProduct(product)
setEditingProduct(c, p) ==
  /\ Screen(c) = "inventory"
  /\ edits < MaxEdits
  /\ Listed(c, p)
  /\ editingProduct' = [ editingProduct EXCEPT ![c] = { Find(c, p) } ]
  /\ UNCHANGED << installed, db, ui, pc, req, attempts, edits, alerts >>

\* the product in the open edit form
Form(c) == CHOOSE product \in editingProduct[c] : TRUE

\* the form's inputs: setEditingProduct({ ...editingProduct, field: value })
changeSellingPrice(c, value) ==
  /\ editingProduct[c] # {}
  /\ editingProduct' = [ editingProduct EXCEPT ![c] =
                           { [ Form(c) EXCEPT !.selling_price = value ] } ]
  /\ UNCHANGED << installed, db, ui, pc, req, attempts, edits, alerts >>

changeStockQuantity(c, value) ==
  /\ editingProduct[c] # {}
  /\ editingProduct' = [ editingProduct EXCEPT ![c] =
                           { [ Form(c) EXCEPT !.stock_quantity = value ] } ]
  /\ UNCHANGED << installed, db, ui, pc, req, attempts, edits, alerts >>

changeLowStockThreshold(c, value) ==
  /\ editingProduct[c] # {}
  /\ editingProduct' = [ editingProduct EXCEPT ![c] =
                           { [ Form(c) EXCEPT !.low_stock_threshold = value ] } ]
  /\ UNCHANGED << installed, db, ui, pc, req, attempts, edits, alerts >>

\* handleUpdateProduct: every field of the form is written to the product's
\* row, then the form closes and fetchProducts() reloads the list; on an
\* error the form stays open (alert('Error updating product...'))
handleUpdateProduct(c) ==
  /\ editingProduct[c] # {}
  /\ edits < MaxEdits
  /\ edits' = edits + 1
  /\ LET form == Form(c)
         t == UpdateProduct(db, "staff", form.id,
                [ db.products[form.id] EXCEPT
                    !.selling_price = form.selling_price,
                    !.stock_quantity = form.stock_quantity,
                    !.low_stock_threshold = form.low_stock_threshold ])
     IN  IF t.raised
           THEN UNCHANGED << db, products, editingProduct >>
           ELSE /\ db' = t
                /\ editingProduct' = [ editingProduct EXCEPT ![c] = {} ]
                /\ products' = [ products EXCEPT ![c] = fetchProducts(c, t) ]
  /\ UNCHANGED << installed, cart, discountType, discountValue, paymentMethod,
                  amountPaid, lastSale, pc, req, attempts, alerts >>

(* ------------------------------ the alerts ---------------------------- *)

\* fetchAlerts(): on mount, after an acknowledgment, and on every change
\* the low_stock_alerts channel reports
fetchAlerts(c) ==
  /\ alerts' = [ alerts EXCEPT ![c] = db.low_stock_alerts ]
  /\ UNCHANGED << installed, db, ui, pc, req, attempts, edits, editingProduct >>

\* new Date(): not before the time of any acknowledgment already stored
Now(t) ==
  \A i \in 1..Len(db.low_stock_alerts) :
    db.low_stock_alerts[i].is_acknowledged =>
      db.low_stock_alerts[i].acknowledged_at <= t

\* acknowledgeAlert(alertId), from the Acknowledge button the inventory
\* screen shows for every alert of its list that is not acknowledged; the
\* fetchAlerts() it awaits afterwards is a request of its own
acknowledgeAlert(c, alertId, t) ==
  /\ Screen(c) = "inventory"
  /\ \E i \in 1..Len(alerts[c]) :
       alerts[c][i].id = alertId /\ ~alerts[c][i].is_acknowledged
  /\ Now(t)
  /\ db' = [ db EXCEPT !.low_stock_alerts =
               [ i \in 1..Len(@) |->
                   IF @[i].id = alertId
                     THEN [ @[i] EXCEPT !.is_acknowledged = TRUE,
                                        !.acknowledged_at = t ]
                     ELSE @[i] ] ]
  /\ UNCHANGED << installed, ui, pc, req, attempts, edits, alerts,
                  editingProduct >>

(* --------------------------- the specification ------------------------ *)

\* the database after the migrations ran and the catalog was entered, with
\* its sequence at seq
InitDb(seq) ==
  \E stock \in InitialStocks, thr \in Thresholds :
    db = [ products |->
             [ p \in Products |->
                 [ stock_quantity |-> stock[p],
                   low_stock_threshold |-> thr,
                   selling_price |-> SellingPrice(p) ] ],
           sales |-> << >>,
           sale_items |-> << >>,
           low_stock_alerts |-> << >>,
           audit_logs |-> << >>,
           sale_number_seq |-> seq,
           next_id |-> 1,
           raised |-> FALSE ]

\* the screens after mount
InitClients ==
  /\ products = [ c \in Clients |-> fetchProducts(c, db) ]
  /\ cart = [ c \in Clients |-> << >> ]
  /\ discountType = [ c \in Clients |-> "flat" ]
  /\ discountValue = [ c \in Clients |-> 0 ]
  /\ paymentMethod = [ c \in Clients |-> "cash" ]
  /\ amountPaid = [ c \in Clients |-> 0 ]
  /\ lastSale = [ c \in Clients |-> NULL ]
  /\ pc = [ c \in Clients |-> "idle" ]
  /\ req = [ c \in Clients |-> NULL ]
  /\ attempts = << >>
  /\ edits = 0
  /\ alerts = [ c \in Clients |-> << >> ]
  /\ editingProduct = [ c \in Clients |-> {} ]

Init ==
  /\ installed \in Deployments
  /\ InitDb(SeqStart - 1)
  /\ InitClients

Next ==
  \/ \E c \in Clients, p \in Products : addToCart(c, p)
  \/ \E c \in Clients, p \in Products, q \in 0..MaxStock :
       updateCartItemQuantity(c, p, q)
  \/ \E c \in Clients : clearCart(c)
  \/ \E c \in Clients, dt \in DiscountTypes, dv \in DiscountValues :
       setDiscount(c, dt, dv)
  \/ \E c \in Clients, m \in PaymentMethods, a \in AmountsPaid :
       setPayment(c, m, a)
  \/ \E c \in Clients : processSale(c)
  \/ \E c \in Clients : processSaleAgain(c)
  \/ \E c \in Clients : NumberSale(c)
  \/ \E c \in Clients : CommitSale(c)
  \/ \E c \in Clients : ValidateItems(c)
  \/ \E c \in Clients : ApplyItems(c)
  \/ \E c \in Clients : ReadBack(c)
  \/ \E c \in Clients : StoreError(c)
  \/ \E c \in Clients, p \in Products : setEditingProduct(c, p)
  \/ \E c \in Clients, v \in EditedPrices : changeSellingPrice(c, v)
  \/ \E c \in Clients, v \in 0..MaxStock : changeStockQuantity(c, v)
  \/ \E c \in Clients, v \in Thresholds : changeLowStockThreshold(c, v)
  \/ \E c \in Clients : handleUpdateProduct(c)
  \/ \E c \in Clients : fetchAlerts(c)
  \/ \E c \in Clients, id \in 1..MaxId, t \in 1..MaxTime :
       acknowledgeAlert(c, id, t)

Spec == Init /\ [][Next]_vars

\* the store under concurrent commits: the carts vary, the discount and
\* payment inputs keep their initial values
NextStore ==
  \/ \E c \in Clients, p \in Products : addToCart(c, p)
  \/ \E c \in Clients, p \in Products, q \in 0..MaxStock :
       updateCartItemQuantity(c, p, q)
  \/ \E c \in Clients : processSale(c)
  \/ \E c \in Clients : NumberSale(c)
  \/ \E c \in Clients : CommitSale(c)
  \/ \E c \in Clients : ValidateItems(c)
  \/ \E c \in Clients : ApplyItems(c)
  \/ \E c \in Clients : ReadBack(c)
  \/ \E c \in Clients : StoreError(c)

SpecStore == Init /\ [][NextStore]_vars

\* the tills used one at a time, with every discount and payment input: a
\* client acts only while the other one is as clearCart leaves it
Quiet(d) ==
  /\ pc[d] = "idle"
  /\ cart[d] = << >>
  /\ discountValue[d] = 0
  /\ amountPaid[d] = 0

NextTill ==
  \E c \in Clients :
    /\ \A d \in Clients \ {c} : Quiet(d)
    /\ pc[c] # "idle" \/ Len(attempts) < TillSales
    /\ \/ \E p \in Products : addToCart(c, p)
       \/ \E p \in Products, q \in 0..MaxStock : updateCartItemQuantity(c, p, q)
       \/ \E dt \in DiscountTypes, dv \in DiscountValues : setDiscount(c, dt, dv)
       \/ \E m \in PaymentMethods, a \in AmountsPaid : setPayment(c, m, a)
       \/ processSale(c)
       \/ NumberSale(c)
       \/ CommitSale(c)
       \/ ValidateItems(c)
       \/ ApplyItems(c)
       \/ ReadBack(c)
       \/ StoreError(c)

SpecTill == Init /\ [][NextTill]_vars

\* the tills of a database whose sequence has handed out seq numbers
\* before: nextval is not undone by a rollback and survives deleted rows
InitNumbers ==
  /\ installed \in Deployments
  /\ \E seq \in CounterValues : InitDb(seq)
  /\ InitClients

SpecNumbers == InitNumbers /\ [][NextTill]_vars

\* the catalog and its alerts: stock edits, the alert lists and their
\* acknowledgment, and the sales of the POS screen
NextCatalog ==
  \/ \E c \in Clients, p \in Products : setEditingProduct(c, p)
  \/ \E c \in Clients, v \in 0..MaxStock : changeStockQuantity(c, v)
  \/ \E c \in Clients : handleUpdateProduct(c)
  \/ \E c \in Clients : fetchAlerts(c)
  \/ \E c \in Clients, id \in 1..MaxId, t \in 1..MaxTime :
       acknowledgeAlert(c, id, t)
  \/ \E c \in Clients :
       /\ Screen(c) = "sales"
       /\ pc[c] # "idle" \/ Len(attempts) < TillSales
       /\ \/ \E p \in Products : addToCart(c, p)
          \/ processSale(c)
          \/ NumberSale(c)
          \/ CommitSale(c)
          \/ ValidateItems(c)
          \/ ApplyItems(c)
          \/ ReadBack(c)
          \/ StoreError(c)

SpecCatalog == Init /\ [][NextCatalog]_vars

\* one POS screen whose Process Sale button can be clicked again while a
\* sale is in flight
SalesClients == { c \in Clients : Screen(c) = "sales" }

NextDoubleClick ==
  \/ \E c \in SalesClients, p \in Products : addToCart(c, p)
  \/ \E c \in SalesClients, p \in Products, q \in 0..MaxStock :
       updateCartItemQuantity(c, p, q)
  \/ \E c \in SalesClients : processSale(c)
  \/ \E c \in SalesClients : processSaleAgain(c)
  \/ \E c \in SalesClients : NumberSale(c)
  \/ \E c \in SalesClients : CommitSale(c)
  \/ \E c \in SalesClients : ValidateItems(c)
  \/ \E c \in SalesClients : ApplyItems(c)
  \/ \E c \in SalesClients : ReadBack(c)
  \/ \E c \in SalesClients : StoreError(c)

SpecDoubleClick == Init /\ [][NextDoubleClick]_vars

InventoryClients == { c \in Clients : Screen(c) = "inventory" }

\* the inventory screen on its own: its quick-sale cart and sale, and its
\* edit form with the price and the stock inputs
NextInventory ==
  \/ \E c \in InventoryClients, p \in Products : setEditingProduct(c, p)
  \/ \E c \in InventoryClients, v \in EditedPrices : changeSellingPrice(c, v)
  \/ \E c \in InventoryClients, v \in 0..MaxStock : changeStockQuantity(c, v)
  \/ \E c \in InventoryClients : handleUpdateProduct(c)
  \/ \E c \in InventoryClients, p \in Products : addToCart(c, p)
  \/ \E c \in InventoryClients, p \in Products, q \in 0..MaxStock :
       updateCartItemQuantity(c, p, q)
  \/ \E c \in InventoryClients : clearCart(c)
  \/ \E c \in InventoryClients : Len(attempts) < TillSales /\ processSale(c)
  \/ \E c \in InventoryClients : NumberSale(c)
  \/ \E c \in InventoryClients : CommitSale(c)
  \/ \E c \in InventoryClients : ValidateItems(c)
  \/ \E c \in InventoryClients : ApplyItems(c)
  \/ \E c \in InventoryClients : ReadBack(c)
  \/ \E c \in InventoryClients : StoreError(c)

SpecInventory == Init /\ [][NextInventory]_vars

(* ------------------------------ properties ---------------------------- *)

\* the sales row an attempt inserted (its sale_id is 0 until then)
SaleOf(a) == CHOOSE r \in Range(db.sales) : r.id = attempts[a].sale_id

\* the number of audit_logs rows of log about one row of a table
Entries(log, table, id) ==
  Len(SelectSeq(log, LAMBDA e : e.table_name = table /\ e.record_id = id))

\* the audit_logs rows a step appends
NewAudit == SubSeq(db'.audit_logs, Len(db.audit_logs) + 1, Len(db'.audit_logs))

\* the sale_items rows a step appends
NewItems == SubSeq(db'.sale_items, Len(db.sale_items) + 1, Len(db'.sale_items))

QuantityInCart(ct, p) ==
  SumSeq([ i \in 1..Len(ct) |->
             IF ct[i].product.id = p THEN ct[i].quantity ELSE 0 ])

\* the step in which client c's sales insert commits
SaleCommitted(c) == pc[c] = "saleNumbered" /\ pc'[c] = "insertItems"

\* the step in which client c's sale_items insert commits
ItemsCommitted(c) ==
  pc[c] \in {"insertItems", "itemsValidated"} /\ pc'[c] = "readBack"

\* the step in which client c's sale_items insert fails
ItemsRejected(c) ==
  pc[c] \in {"insertItems", "itemsValidated"} /\ pc'[c] = "idle"

\* what a product's stock was before any sale, in a run without catalog
\* edits: every installed stock trigger took each sold quantity off once
StockAtStart(p) ==
  db.products[p].stock_quantity
    + Cardinality(StockTriggers)
        * SumSeq([ i \in 1..Len(db.sale_items) |->
                     IF db.sale_items[i].product_id = p
                       THEN db.sale_items[i].quantity ELSE 0 ])

\* two commits that overlapped, each for one unit of p, which had one unit
\* left, and neither ended by a request the store did not serve
LastUnitRace(p) ==
  /\ Len(attempts) = 2
  /\ attempts[2].overlaps = {1}
  /\ \A a \in 1..2 :
       /\ attempts[a].status \in {"committed", "failed"}
       /\ attempts[a].why # "store error"
       /\ Len(attempts[a].cart) = 1
       /\ attempts[a].cart[1].product.id = p
       /\ attempts[a].cart[1].quantity = 1
  /\ StockAtStart(p) = 1

\* C1: in every reachable state the stock quantity of every product is at
\* least 0.
C1_StockNeverNegative ==
  \A p \in Products : db.products[p].stock_quantity >= 0

\* C2: when two commits run concurrently and each asks for the last unit of
\* a product, exactly one of them succeeds, the other one fails, and the
\* product's stock ends at 0.
C2_LastUnitSoldOnce ==
  \A p \in Products :
    LastUnitRace(p) =>
      /\ \E a, b \in 1..2 :
           /\ a # b
           /\ attempts[a].status = "committed"
           /\ attempts[b].status = "failed"
      /\ db.products[p].stock_quantity = 0

\* C3: after a commit attempt failed, at whichever request, no sales row of
\* the attempt remains and no sale_items row references it (the stock
\* decrements of an attempt commit together with its sale_items rows).
C3_FailedCommitLeavesNothing ==
  \A a \in 1..Len(attempts) :
    attempts[a].status = "failed" =>
      /\ \A r \in Range(db.sales) : r.id # attempts[a].sale_id
      /\ \A x \in Range(db.sale_items) : x.sale_id # attempts[a].sale_id

\* C4: when the sale_items insert of a cart with several lines fails, none of
\* the cart's lines is persisted and no product's stock changes.
C4_AllLinesOrNone ==
  [][ \A c \in Clients :
        (ItemsRejected(c) /\ Len(req[c].cart) >= 2) =>
          /\ db'.sale_items = db.sale_items
          /\ db'.products = db.products ]_vars

\* a cart of several lines was rejected by validate_stock_before_sale
C4_Witness ==
  \E a \in 1..Len(attempts) :
    /\ attempts[a].status = "failed"
    /\ attempts[a].why = "insufficient stock"
    /\ Len(attempts[a].cart) >= 2

\* C5: when a sale's items commit, the stock of every product in the cart
\* goes down by the line's quantity, once, whatever triggers are installed.
C5_StockDecrementedOnce ==
  [][ \A c \in Clients :
        ItemsCommitted(c) =>
          \A p \in Products :
            db'.products[p].stock_quantity =
              db.products[p].stock_quantity - QuantityInCart(req[c].cart, p) ]_vars

\* C6: no two persisted sales have the same sale_number.
C6_SaleNumbersUnique ==
  \A i, j \in 1..Len(db.sales) :
    i # j => db.sales[i].sale_number # db.sales[j].sale_number

\* two sales were persisted by commits that overlapped
C6_Witness ==
  /\ Len(db.sales) = 2
  /\ Len(attempts) = 2
  /\ attempts[2].overlaps = {1}

C8_OneAuditEntryPerChange ==
  [][ \A c \in Clients :
        /\ SaleCommitted(c) =>
             Entries(NewAudit, "sales", req'[c].saleData.id) = 1
        /\ ItemsCommitted(c) =>
             /\ \A i \in 1..Len(NewItems) :
                  Entries(NewAudit, "sale_items", NewItems[i].id) = 1
             /\ \A p \in Products :
                  Entries(NewAudit, "products", p) =
                    IF InCart(req[c].cart, p)
                      THEN Cardinality(StockTriggers) ELSE 0 ]_vars

\* C9: a commit that was rejected, by a trigger or by a store error, leaves
\* no audit entry: none about a sales row of the attempt, none about a
\* sale_items row of it.
C9_RejectedCommitLeavesNoAudit ==
  \A a \in 1..Len(attempts) :
    attempts[a].status = "failed" =>
      \A e \in Range(db.audit_logs) :
        /\ e.table_name = "sales" => e.record_id # attempts[a].sale_id
        /\ e.table_name = "sale_items" =>
             e.new_values.sale_id # attempts[a].sale_id

ItemsOf(a) ==
  SelectSeq(db.sale_items, LAMBDA x : x.sale_id = attempts[a].sale_id)

\* C11: for every sale whose items are committed, the total_price of its
\* sale_items rows sums to the sale's subtotal, and every row has
\* total_price = quantity * unit_price.
C11_ItemsSumToSubtotal ==
  \A a \in 1..Len(attempts) :
    (attempts[a].sale_id # 0 /\ ItemsOf(a) # << >>) =>
      /\ SumSeq([ i \in 1..Len(ItemsOf(a)) |-> ItemsOf(a)[i].total_price ])
           = SaleOf(a).subtotal
      /\ \A i \in 1..Len(ItemsOf(a)) :
           ItemsOf(a)[i].total_price
             = ItemsOf(a)[i].quantity * ItemsOf(a)[i].unit_price

\* a sale of two lines, one of them of several units, is complete
C11_Witness ==
  \E a \in 1..Len(attempts) :
    /\ attempts[a].status = "committed"
    /\ Len(ItemsOf(a)) >= 2
    /\ \E i \in 1..Len(ItemsOf(a)) : ItemsOf(a)[i].quantity >= 2

\* a commit request of client c would have to be rejected: its cart is empty,
\* its total is below 0, or it pays cash with an entered amount below the total
MustReject(c) ==
  LET total == calculateTotal(cart[c], discountType[c], discountValue[c])
  IN  \/ Len(cart[c]) = 0
      \/ total < 0
      \/ paymentMethod[c] = "cash" /\ amountPaid[c] # 0 /\ amountPaid[c] < total

\* C12: while a client's commit request would have to be rejected and no
\* commit is in flight, no step issues an insert for that client: the client
\* stays idle, no attempt of it starts, and the store is unchanged.
C12_RejectedBeforeAnyWrite ==
  [][ \A c \in Clients :
        (MustReject(c) /\ \A d \in Clients : pc[d] = "idle") =>
          /\ pc'[c] = "idle"
          /\ \A a \in (Len(attempts) + 1)..Len(attempts') :
               attempts'[a].client # c
          /\ db' = db ]_vars

\* a cash payment below the total of a filled cart is entered
C12_Witness ==
  \E c \in Clients :
    /\ pc[c] = "idle"
    /\ Len(cart[c]) > 0
    /\ paymentMethod[c] = "cash"
    /\ amountPaid[c] # 0
    /\ 0 <= calculateTotal(cart[c], discountType[c], discountValue[c])
    /\ amountPaid[c] < calculateTotal(cart[c], discountType[c], discountValue[c])

\* the attempt whose sale client c last handed to the receipt modal
Receipt(c, a) ==
  /\ attempts[a].client = c
  /\ attempts[a].status = "committed"
  /\ lastSale[c].sale.id = attempts[a].sale_id

\* C13: a cash sale committed with no amount paid entered is handed to the
\* receipt with amount_paid equal to the sale's total and change_due = 0.
C13_CashDefaultsToExactPayment ==
  \A c \in Clients : \A a \in 1..Len(attempts) :
    ( /\ Receipt(c, a)
      /\ attempts[a].paymentMethod = "cash"
      /\ attempts[a].amountPaid = 0 ) =>
        /\ lastSale[c].amount_paid = lastSale[c].sale.total_amount
        /\ lastSale[c].change_due = 0

\* C14: a sale committed with a payment method other than cash is handed to
\* the receipt with change_due = 0, whatever amount paid is held in state.
C14_NoChangeUnlessCash ==
  \A c \in Clients : \A a \in 1..Len(attempts) :
    (Receipt(c, a) /\ attempts[a].paymentMethod # "cash") =>
      lastSale[c].change_due = 0

\* the reference formulas of the calculator
RefSubtotal(ct) ==
  SumSeq([ i \in 1..Len(ct) |-> ct[i].quantity * ct[i].unit_price ])
RefTax(subtotal, discount) == ((subtotal - discount) * TaxRateNum) \div TaxRateDen
RefTotal(subtotal, discount, tax) == subtotal - discount + tax
RefChange(paid, total) == IF paid - total > 0 THEN paid - total ELSE 0

\* one line of 2 x 100.00 with a discount of 10 percent
ExampleCart(c) ==
  /\ Len(cart[c]) = 1
  /\ cart[c][1].quantity = 2
  /\ cart[c][1].unit_price = 10000
  /\ discountType[c] = "percentage"
  /\ discountValue[c] = 10

C16_PercentageDiscountWithinSubtotal ==
  \A c \in Clients :
    discountType[c] = "percentage" =>
      /\ 0 <= calculateDiscountAmount(cart[c], discountType[c], discountValue[c])
      /\ calculateDiscountAmount(cart[c], discountType[c], discountValue[c])
           <= calculateSubtotal(cart[c])

\* the step in which client c's sale_items insert runs its AFTER INSERT
\* triggers, to commit or to be rolled back by a trigger that raises
ItemsStatement(c) ==
  \/ ItemsCommitted(c)
  \/ ItemsRejected(c) /\ attempts'[req[c].attempt].why = "trigger raised"

\* the cart in flight sells units of p that are in stock and leaves p at or
\* below its low_stock_threshold
BringsToThreshold(c, p) ==
  LET left == db.products[p].stock_quantity - QuantityInCart(req[c].cart, p)
  IN  /\ InCart(req[c].cart, p)
      /\ 0 <= left
      /\ left <= db.products[p].low_stock_threshold

\* C17: when a sale brings a product's stock to or below its threshold, the
\* commit succeeds and leaves an alert for the product that carries the new
\* stock and is not acknowledged.
C17_LowStockSaleRaisesAlert ==
  [][ \A c \in Clients : \A p \in Products :
        (ItemsStatement(c) /\ BringsToThreshold(c, p)) =>
          /\ ItemsCommitted(c)
          /\ \E i \in 1..Len(db'.low_stock_alerts) :
               /\ db'.low_stock_alerts[i].product_id = p
               /\ db'.low_stock_alerts[i].current_stock
                    = db'.products[p].stock_quantity
               /\ ~db'.low_stock_alerts[i].is_acknowledged ]_vars

\* a step that rewrites rows of low_stock_alerts and touches no product:
\* an acknowledgment
AcknowledgmentStep ==
  /\ db'.products = db.products
  /\ Len(db'.low_stock_alerts) = Len(db.low_stock_alerts)

\* C18: acknowledging an alert that is already acknowledged leaves every
\* field of the alert as it was.
C18_AcknowledgeIsIdempotent ==
  [][ AcknowledgmentStep =>
        \A i \in 1..Len(db.low_stock_alerts) :
          db.low_stock_alerts[i].is_acknowledged =>
            db'.low_stock_alerts[i] = db.low_stock_alerts[i] ]_vars

\* C19: an acknowledged alert records who acknowledged it and when.
C19_AcknowledgmentRecordsActorAndTime ==
  \A i \in 1..Len(db.low_stock_alerts) :
    db.low_stock_alerts[i].is_acknowledged =>
      /\ db.low_stock_alerts[i].acknowledged_at \in 1..MaxTime
      /\ db.low_stock_alerts[i].acknowledged_by # NULL

\* C20: across every step the audit log only grows: the entries it had are
\* still there, unchanged and in place.
C20_AuditLogAppendOnly ==
  [][ /\ Len(db.audit_logs) <= Len(db'.audit_logs)
      /\ SubSeq(db'.audit_logs, 1, Len(db.audit_logs)) = db.audit_logs ]_vars

\* the log holds the entries of a sale and of a catalog edit, and an alert
\* was acknowledged
C20_Witness ==
  /\ \E e \in Range(db.audit_logs) : e.table_name = "sales"
  /\ \E e \in Range(db.audit_logs) : e.table_name = "products" /\ e.user_id = "staff"
  /\ \E i \in 1..Len(db.low_stock_alerts) : db.low_stock_alerts[i].is_acknowledged

\* the rows of low_stock_alerts for product p that are not acknowledged
Unacknowledged(p) ==
  { i \in 1..Len(db.low_stock_alerts) :
      /\ db.low_stock_alerts[i].product_id = p
      /\ ~db.low_stock_alerts[i].is_acknowledged }

\* C21: in every reachable state each product has at most one alert that is
\* not acknowledged.
C21_OneActiveAlertPerProduct ==
  \A p \in Products : Cardinality(Unacknowledged(p)) <= 1

\* C22: in every reachable state an alert that is not acknowledged exists
\* only for a product whose stock is at or below its threshold.
C22_AlertOnlyWhileLow ==
  \A p \in Products :
    Unacknowledged(p) # {} =>
      db.products[p].stock_quantity <= db.products[p].low_stock_threshold


\* the sales rows a step appends
NewSales == SubSeq(db'.sales, Len(db.sales) + 1, Len(db'.sales))

\* C23: no step commits a row change of sales, sale_items or products without
\* committing, in the same step, an audit entry about that row.
C23_MutationCommitsWithItsAuditEntry ==
  [][ /\ \A i \in 1..Len(NewSales) :
           Entries(NewAudit, "sales", NewSales[i].id) >= 1
      /\ \A i \in 1..Len(NewItems) :
           Entries(NewAudit, "sale_items", NewItems[i].id) >= 1
      /\ \A p \in Products :
           db'.products[p] # db.products[p] =>
             Entries(NewAudit, "products", p) >= 1 ]_vars


C26_FixedWidthAndDistinct ==
  LET next == db.sale_number_seq + 1
      all  == { n + 1 : n \in CounterValues } \cup {next}
  IN  /\ \A n \in all :
           /\ FormatSaleNumber(n).prefix = "BD-"
           /\ Len(FormatSaleNumber(n).digits) = SaleNumberWidth
      /\ \A n \in all :
           n # next => FormatSaleNumber(n) # FormatSaleNumber(next)


Saved(c) == editingProduct[c] # {} /\ edits' = edits + 1

\* C30: when a form is saved whose stock field holds what the product list
\* showed when the form was opened, the save leaves the stored stock_quantity
\* as it is, with the decrement of every sale committed in between.
C30_EditKeepsStockDecrement ==
  [][ \A c \in Clients :
        Saved(c) =>
          LET p == Form(c).id IN
          Form(c).stock_quantity = Find(c, p).stock_quantity =>
            db'.products[p].stock_quantity = db.products[p].stock_quantity ]_vars


\* C25: the unit_price of a cart line is the price of the product as the
\* list showed it when the line was added; as long as the line stays in the
\* cart no step changes it, and the sale_items row of the line carries it.
C25_UnitPriceSnapshot ==
  [][ \A c \in Clients :
        /\ \A j \in 1..Len(cart'[c]) :
             LET line == cart'[c][j] IN
             IF InCart(cart[c], line.product.id)
               THEN line.unit_price = CartLine(cart[c], line.product.id).unit_price
               ELSE line.unit_price = Find(c, line.product.id).selling_price
        /\ ItemsCommitted(c) =>
             /\ req[c].cart = cart[c]
             /\ \A i \in 1..Len(NewItems) :
                  NewItems[i].unit_price =
                    CartLine(cart[c], NewItems[i].product_id).unit_price ]_vars

\* a sale is complete with a line of two units whose unit_price is no longer
\* the catalog price of its product
C25_Witness ==
  \E a \in 1..Len(attempts) :
    /\ attempts[a].status = "committed"
    /\ \E x \in Range(ItemsOf(a)) :
         /\ x.quantity >= 2
         /\ x.unit_price # db.products[x.product_id].selling_price

\* C28: every cart holds at most one line per product, and the quantity of
\* every line is at least 1 and at most the stock_quantity of the product
\* snapshot the line holds.
C28_CartWithinSnapshotStock ==
  \A c \in Clients :
    /\ \A i, j \in 1..Len(cart[c]) :
         cart[c][i].product.id = cart[c][j].product.id => i = j
    /\ \A i \in 1..Len(cart[c]) :
         /\ 1 <= cart[c][i].quantity
         /\ cart[c][i].quantity <= cart[c][i].product.stock_quantity


\* C27: of two invocations of processSale by one client, the second started
\* while the first was awaiting the store, at most one inserts a sales row,
\* and at most one has sale_items rows with their stock decrements.
C27_CartCommittedAtMostOnce ==
  \A a, b \in 1..Len(attempts) :
    /\ attempts[a].client = attempts[b].client
    /\ a \in attempts[b].overlaps
    => /\ ~(attempts[a].sale_id # 0 /\ attempts[b].sale_id # 0)
       /\ ~(ItemsOf(a) # << >> /\ ItemsOf(b) # << >>)

====
